---- MODULE Spec2Model ----
(***************************************************************************)
(* The Isthmus and Jovian L1 block info calldata codecs of                 *)
(* crates/protocol/protocol/src/info (isthmus.rs, jovian.rs).              *)
(*                                                                         *)
(* A byte buffer is a sequence of numbers in 0..255; Rust's 0-based        *)
(* half-open range r[lo..hi] is Slice(r, lo, hi).  An unsigned integer of  *)
(* w bits is kept at its width as a big-endian numeral of w/16 digits in   *)
(* base 2^16, so that every value of u32, u64 and u128 is representable.   *)
(* B256 and Address values are byte sequences of length 32 and 20.         *)
(***************************************************************************)
EXTENDS Integers, Sequences, FiniteSets, TLC

VARIABLES tier, info, unset, edits, calldata, origin, decoder, result, pc

vars == <<tier, info, unset, edits, calldata, origin, decoder, result, pc>>

(***************************************************************************)
(* Bounds of the exploration.                                              *)
(***************************************************************************)
\* how many fields the caller overrides in the record it starts from
MaxEdits == 1
\* how many bytes a caller appends to an encoding, and how far a raw
\* buffer is longer than the longest encoding
MaxExtra == 2

(***************************************************************************)
(* Bytes and fixed-width integers.                                         *)
(***************************************************************************)
Zeros(n) == [i \in 1..n |-> 0]

Fill(b, n) == [i \in 1..n |-> b]

\* r[lo..hi]
Slice(r, lo, hi) == [i \in 1..(hi - lo) |-> r[lo + i]]

\* buf[lo..lo + src.len()].copy_from_slice(src)
copy_from_slice(buf, lo, src) ==
    [i \in 1..Len(buf) |-> IF i > lo /\ i <= lo + Len(src) THEN src[i - lo] ELSE buf[i]]

\* buf.extend_from_slice(s)
extend_from_slice(buf, s) == buf \o s

\* uN::to_be_bytes: every base-2^16 digit gives its high byte, then its low byte
to_be_bytes(v) ==
    [i \in 1..(2 * Len(v)) |->
        IF i % 2 = 1 THEN v[(i + 1) \div 2] \div 256 ELSE v[i \div 2] % 256]

\* uN::from_be_bytes
from_be_bytes(b) == [k \in 1..(Len(b) \div 2) |-> b[2 * k - 1] * 256 + b[2 * k]]

\* U256::from(v): zero extension of a narrower unsigned integer to 256 bits
U256_from(v) == Zeros(16 - Len(v)) \o v

U16(n) == <<n>>

(***************************************************************************)
(* Decode results: Ok(record), Err(kind(expected, actual)), or a panic of  *)
(* a slice index past the end of the buffer.  reads is the set of ranges   *)
(* <<lo, hi>> of the buffer the decoder indexed; mapped tells that the     *)
(* error came out of a map_err closure.                                    *)
(***************************************************************************)
Ok(v, rd) == [tag |-> "Ok", val |-> v, reads |-> rd, mapped |-> FALSE]

Err(k, e, a, m) ==
    [tag |-> "Err", kind |-> k, expected |-> e, actual |-> a, reads |-> {}, mapped |-> m]

Panic(rd) == [tag |-> "Panic", reads |-> rd, mapped |-> FALSE]

InBounds(r, rd) == \A s \in rd : s[1] <= s[2] /\ s[2] <= Len(r)

(***************************************************************************)
(* Ecotone base fields (info/ecotone.rs, info/common.rs).                  *)
(***************************************************************************)
Ecotone_BASE_LEN == 4 + 32 * 5

\* L1BlockInfoEcotone::encode_base_fields: the selector bytes are left zero
\* for the caller to overwrite
encode_base_fields(e) ==
    Zeros(4)
        \o to_be_bytes(e.base_fee_scalar)
        \o to_be_bytes(e.blob_base_fee_scalar)
        \o to_be_bytes(e.sequence_number)
        \o to_be_bytes(e.time)
        \o to_be_bytes(e.number)
        \o to_be_bytes(U256_from(e.base_fee))
        \o to_be_bytes(U256_from(e.blob_base_fee))
        \o e.block_hash
        \o e.batcher_address \o Zeros(12)

\* the ranges L1BlockInfoEcotone::decode_base_fields indexes
base_fields_reads ==
    {<<4, 8>>, <<8, 12>>, <<12, 20>>, <<20, 28>>, <<28, 36>>, <<60, 68>>, <<84, 100>>,
     <<100, 132>>, <<132, 152>>}

\* L1BlockInfoEcotone::decode_base_fields
decode_base_fields(r) ==
    [number |-> from_be_bytes(Slice(r, 28, 36)),
     time |-> from_be_bytes(Slice(r, 20, 28)),
     base_fee |-> from_be_bytes(Slice(r, 60, 68)),
     block_hash |-> Slice(r, 100, 132),
     sequence_number |-> from_be_bytes(Slice(r, 12, 20)),
     batcher_address |-> Slice(r, 132, 152),
     blob_base_fee |-> from_be_bytes(Slice(r, 84, 100)),
     blob_base_fee_scalar |-> from_be_bytes(Slice(r, 8, 12)),
     base_fee_scalar |-> from_be_bytes(Slice(r, 4, 8)),
     empty_scalars |-> FALSE,
     l1_fee_overhead |-> Zeros(16)]

(***************************************************************************)
(* Isthmus (info/isthmus.rs).                                              *)
(***************************************************************************)
Isthmus_L1_INFO_TX_LEN == 4 + 32 * 5 + 4 + 8

Isthmus_L1_INFO_TX_SELECTOR == <<9, 137, 153, 190>>

\* #[derive(Default)] on L1BlockInfoIsthmus
Isthmus_default ==
    [number |-> Zeros(4),
     time |-> Zeros(4),
     base_fee |-> Zeros(4),
     block_hash |-> Zeros(32),
     sequence_number |-> Zeros(4),
     batcher_address |-> Zeros(20),
     blob_base_fee |-> Zeros(8),
     blob_base_fee_scalar |-> Zeros(2),
     base_fee_scalar |-> Zeros(2),
     operator_fee_scalar |-> Zeros(2),
     operator_fee_constant |-> Zeros(4)]

to_ecotone(self) ==
    [number |-> self.number,
     time |-> self.time,
     base_fee |-> self.base_fee,
     block_hash |-> self.block_hash,
     sequence_number |-> self.sequence_number,
     batcher_address |-> self.batcher_address,
     blob_base_fee |-> self.blob_base_fee,
     blob_base_fee_scalar |-> self.blob_base_fee_scalar,
     base_fee_scalar |-> self.base_fee_scalar,
     empty_scalars |-> FALSE,
     l1_fee_overhead |-> Zeros(16)]

from_ecotone(ecotone, operator_fee_scalar, operator_fee_constant) ==
    [number |-> ecotone.number,
     time |-> ecotone.time,
     base_fee |-> ecotone.base_fee,
     block_hash |-> ecotone.block_hash,
     sequence_number |-> ecotone.sequence_number,
     batcher_address |-> ecotone.batcher_address,
     blob_base_fee |-> ecotone.blob_base_fee,
     blob_base_fee_scalar |-> ecotone.blob_base_fee_scalar,
     base_fee_scalar |-> ecotone.base_fee_scalar,
     operator_fee_scalar |-> operator_fee_scalar,
     operator_fee_constant |-> operator_fee_constant]

\* encode_isthmus_fields without operator_fee_scalar
encode_isthmus_fields_short(self, buf) ==
    extend_from_slice(buf, to_be_bytes(self.operator_fee_constant))

encode_isthmus_fields(self, buf) ==
    extend_from_slice(
        extend_from_slice(buf, to_be_bytes(self.operator_fee_scalar)),
        to_be_bytes(self.operator_fee_constant))

\* the ranges decode_isthmus_fields indexes
isthmus_fields_reads == {<<164, 168>>, <<168, 176>>}

\* decode_isthmus_fields with operator_fee_constant read four bytes early
decode_isthmus_fields_early(r) ==
    <<from_be_bytes(Slice(r, 164, 168)), from_be_bytes(Slice(r, 164, 172))>>

\* the pair (operator_fee_scalar, operator_fee_constant)
decode_isthmus_fields(r) ==
    <<from_be_bytes(Slice(r, 164, 168)), from_be_bytes(Slice(r, 168, 176))>>

Isthmus_encode_calldata(self) ==
    LET ecotone == to_ecotone(self)
        buf == encode_base_fields(ecotone)
        sel == copy_from_slice(buf, 0, Isthmus_L1_INFO_TX_SELECTOR)
    IN  encode_isthmus_fields(self, sel)

\* Isthmus decode_calldata with the error's expected and actual lengths swapped
Isthmus_decode_calldata_swapped(r) ==
    IF Len(r) # Isthmus_L1_INFO_TX_LEN
    THEN Err("InvalidIsthmusLength", Len(r), Isthmus_L1_INFO_TX_LEN, FALSE)
    ELSE LET rd == base_fields_reads \cup isthmus_fields_reads
         IN  IF ~InBounds(r, rd)
             THEN Panic(rd)
             ELSE LET ecotone == decode_base_fields(r)
                      fields == decode_isthmus_fields(r)
                  IN  Ok(from_ecotone(ecotone, fields[1], fields[2]), rd)

\* Isthmus decode_calldata that also rejects a selector other than its own
Isthmus_decode_calldata_selector(r) ==
    IF Len(r) # Isthmus_L1_INFO_TX_LEN
    THEN Err("InvalidIsthmusLength", Isthmus_L1_INFO_TX_LEN, Len(r), FALSE)
    ELSE IF Slice(r, 0, 4) # Isthmus_L1_INFO_TX_SELECTOR
    THEN Err("InvalidIsthmusLength", Isthmus_L1_INFO_TX_LEN, Len(r), FALSE)
    ELSE LET rd == base_fields_reads \cup isthmus_fields_reads
         IN  Ok(from_ecotone(decode_base_fields(r), decode_isthmus_fields(r)[1],
                             decode_isthmus_fields(r)[2]), rd)

Isthmus_decode_calldata(r) ==
    IF Len(r) # Isthmus_L1_INFO_TX_LEN
    THEN Err("InvalidIsthmusLength", Isthmus_L1_INFO_TX_LEN, Len(r), FALSE)
    ELSE LET rd == base_fields_reads \cup isthmus_fields_reads
         IN  IF ~InBounds(r, rd)
             THEN Panic(rd)
             ELSE LET ecotone == decode_base_fields(r)
                      fields == decode_isthmus_fields(r)
                  IN  Ok(from_ecotone(ecotone, fields[1], fields[2]), rd)

(***************************************************************************)
(* Jovian (info/jovian.rs).                                                *)
(***************************************************************************)
DEFAULT_DA_FOOTPRINT_GAS_SCALAR == 400

Jovian_L1_INFO_TX_LEN == 4 + 32 * 5 + 4 + 8 + 2

Jovian_L1_INFO_TX_SELECTOR == <<61, 182, 190, 43>>

\* #[derive(Default)] on L1BlockInfoJovian: every field is its type's default
Jovian_default ==
    [number |-> Zeros(4),
     time |-> Zeros(4),
     base_fee |-> Zeros(4),
     block_hash |-> Zeros(32),
     sequence_number |-> Zeros(4),
     batcher_address |-> Zeros(20),
     blob_base_fee |-> Zeros(8),
     blob_base_fee_scalar |-> Zeros(2),
     base_fee_scalar |-> Zeros(2),
     operator_fee_scalar |-> Zeros(2),
     operator_fee_constant |-> Zeros(4),
     da_footprint_gas_scalar |-> Zeros(1)]

\* to_isthmus that leaves operator_fee_constant at its default
to_isthmus_partial(self) ==
    [number |-> self.number,
     time |-> self.time,
     base_fee |-> self.base_fee,
     block_hash |-> self.block_hash,
     sequence_number |-> self.sequence_number,
     batcher_address |-> self.batcher_address,
     blob_base_fee |-> self.blob_base_fee,
     blob_base_fee_scalar |-> self.blob_base_fee_scalar,
     base_fee_scalar |-> self.base_fee_scalar,
     operator_fee_scalar |-> self.operator_fee_scalar,
     operator_fee_constant |-> Zeros(4)]

to_isthmus(self) ==
    [number |-> self.number,
     time |-> self.time,
     base_fee |-> self.base_fee,
     block_hash |-> self.block_hash,
     sequence_number |-> self.sequence_number,
     batcher_address |-> self.batcher_address,
     blob_base_fee |-> self.blob_base_fee,
     blob_base_fee_scalar |-> self.blob_base_fee_scalar,
     base_fee_scalar |-> self.base_fee_scalar,
     operator_fee_scalar |-> self.operator_fee_scalar,
     operator_fee_constant |-> self.operator_fee_constant]

from_isthmus(isthmus, da_footprint_gas_scalar) ==
    [number |-> isthmus.number,
     time |-> isthmus.time,
     base_fee |-> isthmus.base_fee,
     block_hash |-> isthmus.block_hash,
     sequence_number |-> isthmus.sequence_number,
     batcher_address |-> isthmus.batcher_address,
     blob_base_fee |-> isthmus.blob_base_fee,
     blob_base_fee_scalar |-> isthmus.blob_base_fee_scalar,
     base_fee_scalar |-> isthmus.base_fee_scalar,
     operator_fee_scalar |-> isthmus.operator_fee_scalar,
     operator_fee_constant |-> isthmus.operator_fee_constant,
     da_footprint_gas_scalar |-> da_footprint_gas_scalar]

encode_jovian_fields(self, buf) ==
    extend_from_slice(buf, to_be_bytes(self.da_footprint_gas_scalar))

\* the range decode_jovian_fields indexes
jovian_fields_reads == {<<176, 178>>}

\* decode_jovian_fields reading the two bytes before the field
decode_jovian_fields_early(r) == from_be_bytes(Slice(r, 174, 176))

decode_jovian_fields(r) == from_be_bytes(Slice(r, 176, 178))

\* Jovian encode_calldata that keeps the selector of the Isthmus encoding
Jovian_encode_calldata_inherit(self) ==
    encode_jovian_fields(self, Isthmus_encode_calldata(to_isthmus(self)))

Jovian_encode_calldata(self) ==
    LET isthmus == to_isthmus(self)
        buf == Isthmus_encode_calldata(isthmus)
        sel == copy_from_slice(buf, 0, Jovian_L1_INFO_TX_SELECTOR)
    IN  encode_jovian_fields(self, sel)

\* the range of &r[..L1BlockInfoIsthmus::L1_INFO_TX_LEN]
Jovian_prefix_reads == {<<0, Isthmus_L1_INFO_TX_LEN>>}

\* Jovian decode_calldata whose length error is the parent's kind
Jovian_decode_calldata_kind(r) ==
    IF Len(r) # Jovian_L1_INFO_TX_LEN
    THEN Err("InvalidIsthmusLength", Jovian_L1_INFO_TX_LEN, Len(r), FALSE)
    ELSE LET inner == Isthmus_decode_calldata(Slice(r, 0, Isthmus_L1_INFO_TX_LEN))
         IN  Ok(from_isthmus(inner.val, decode_jovian_fields(r)),
                Jovian_prefix_reads \cup inner.reads \cup jovian_fields_reads)

\* Jovian decode_calldata that leaves the length check to the Isthmus decoder
Jovian_decode_calldata_unchecked(r) ==
    IF ~InBounds(r, Jovian_prefix_reads)
    THEN Panic(Jovian_prefix_reads)
    ELSE LET inner == Isthmus_decode_calldata(Slice(r, 0, Isthmus_L1_INFO_TX_LEN))
             rd == Jovian_prefix_reads \cup inner.reads \cup jovian_fields_reads
         IN  IF inner.tag = "Err"
             THEN Err("InvalidJovianLength", Jovian_L1_INFO_TX_LEN, Len(r), TRUE)
             ELSE IF ~InBounds(r, rd)
             THEN Panic(rd)
             ELSE Ok(from_isthmus(inner.val, decode_jovian_fields(r)), rd)

Jovian_decode_calldata(r) ==
    IF Len(r) # Jovian_L1_INFO_TX_LEN
    THEN Err("InvalidJovianLength", Jovian_L1_INFO_TX_LEN, Len(r), FALSE)
    ELSE IF ~InBounds(r, Jovian_prefix_reads)
    THEN Panic(Jovian_prefix_reads)
    ELSE LET inner == Isthmus_decode_calldata(Slice(r, 0, Isthmus_L1_INFO_TX_LEN))
             rd == Jovian_prefix_reads \cup inner.reads \cup jovian_fields_reads
         IN  IF inner.tag = "Panic"
             THEN Panic(Jovian_prefix_reads \cup inner.reads)
             ELSE IF inner.tag = "Err"
             THEN Err("InvalidJovianLength", Jovian_L1_INFO_TX_LEN, Len(r), TRUE)
             ELSE IF ~InBounds(r, rd)
             THEN Panic(rd)
             ELSE Ok(from_isthmus(inner.val, decode_jovian_fields(r)), rd)

(***************************************************************************)
(* The callers of the codec: a caller builds a record (from Default or     *)
(* from the literal of the round-trip tests, overriding fields), encodes   *)
(* it, and hands a buffer to a decoder: the encoding, a changed encoding,  *)
(* or bytes of its own.                                                    *)
(***************************************************************************)
Tiers == {"Isthmus", "Jovian"}

IsthmusFields ==
    {"number", "time", "base_fee", "block_hash", "sequence_number", "batcher_address",
     "blob_base_fee", "blob_base_fee_scalar", "base_fee_scalar", "operator_fee_scalar",
     "operator_fee_constant"}

JovianFields == IsthmusFields \cup {"da_footprint_gas_scalar"}

Fields(t) == IF t = "Isthmus" THEN IsthmusFields ELSE JovianFields

Default(t) == IF t = "Isthmus" THEN Isthmus_default ELSE Jovian_default

U32(n) == <<0, n>>

U64(n) == <<0, 0, 0, n>>

U128(n) == <<0, 0, 0, 0, 0, 0, 0, n>>

\* the record of test_l1_block_info_isthmus_roundtrip_calldata_encoding
Isthmus_test_info ==
    [number |-> U64(1),
     time |-> U64(2),
     base_fee |-> U64(3),
     block_hash |-> Fill(4, 32),
     sequence_number |-> U64(5),
     batcher_address |-> Fill(6, 20),
     blob_base_fee |-> U128(7),
     blob_base_fee_scalar |-> U32(8),
     base_fee_scalar |-> U32(9),
     operator_fee_scalar |-> U32(10),
     operator_fee_constant |-> U64(11)]

\* the record of test_l1_block_info_jovian_roundtrip_calldata_encoding
Jovian_test_info ==
    [number |-> U64(1),
     time |-> U64(2),
     base_fee |-> U64(3),
     block_hash |-> Fill(4, 32),
     sequence_number |-> U64(5),
     batcher_address |-> Fill(6, 20),
     blob_base_fee |-> U128(7),
     blob_base_fee_scalar |-> U32(8),
     base_fee_scalar |-> U32(9),
     operator_fee_scalar |-> U32(10),
     operator_fee_constant |-> U64(11),
     da_footprint_gas_scalar |-> U16(12)]

TestInfo(t) == IF t = "Isthmus" THEN Isthmus_test_info ELSE Jovian_test_info

\* the values a caller gives a field: the largest of its type, and one whose
\* bytes are pairwise different (0x0102, 0x0304, ...)
Digits(n) == [i \in 1..n |-> 65535]

Count(n) == [i \in 1..n |-> (2 * i - 1) * 256 + 2 * i]

Bytes(n) == [i \in 1..n |-> 160 + i]

FieldValues(f) ==
    CASE f \in {"number", "time", "base_fee", "sequence_number", "operator_fee_constant"} ->
            {Digits(4), Count(4)}
      [] f = "blob_base_fee" -> {Digits(8), Count(8)}
      [] f \in {"blob_base_fee_scalar", "base_fee_scalar", "operator_fee_scalar"} ->
            {Digits(2), Count(2)}
      [] f = "block_hash" -> {Fill(255, 32), Bytes(32)}
      [] f = "batcher_address" -> {Fill(255, 20), Bytes(20)}
      [] f = "da_footprint_gas_scalar" ->
            {Digits(1), U16(DEFAULT_DA_FOOTPRINT_GAS_SCALAR)}

\* the bytes a caller fills a buffer of its own with, or appends
FillBytes == {0, 171, 255}

\* the 4-byte values a caller puts in bytes [0:4) of a buffer: both tiers'
\* own, the zero placeholder, and two that belong to neither tier
Selectors ==
    {Isthmus_L1_INFO_TX_SELECTOR, Jovian_L1_INFO_TX_SELECTOR, Zeros(4), <<68, 10, 94, 32>>,
     Fill(255, 4)}

\* the lengths a caller cuts an encoding to
CutLens == {0, 1, 4, Ecotone_BASE_LEN, Isthmus_L1_INFO_TX_LEN, Jovian_L1_INFO_TX_LEN - 1}

NoResult == [tag |-> "None", reads |-> {}, mapped |-> FALSE]

Init ==
    /\ tier \in Tiers
    /\ \/ info = Default(tier) /\ unset = Fields(tier)
       \/ info = TestInfo(tier) /\ unset = {}
    /\ edits = 0
    /\ calldata = <<>>
    /\ origin = "none"
    /\ decoder = "none"
    /\ result = NoResult
    /\ pc = "build"

\* the caller sets field f of the record to x
SetField(f, x) ==
    /\ pc = "build"
    /\ edits < MaxEdits
    /\ info' = [info EXCEPT ![f] = x]
    /\ unset' = unset \ {f}
    /\ edits' = edits + 1
    /\ UNCHANGED <<tier, calldata, origin, decoder, result, pc>>

\* L1BlockInfoIsthmus::encode_calldata(&info)
IsthmusEncode ==
    /\ pc = "build"
    /\ tier = "Isthmus"
    /\ calldata' = Isthmus_encode_calldata(info)
    /\ origin' = "encoded"
    /\ pc' = "ready"
    /\ UNCHANGED <<tier, info, unset, edits, decoder, result>>

\* L1BlockInfoJovian::encode_calldata(&info)
JovianEncode ==
    /\ pc = "build"
    /\ tier = "Jovian"
    /\ calldata' = Jovian_encode_calldata(info)
    /\ origin' = "encoded"
    /\ pc' = "ready"
    /\ UNCHANGED <<tier, info, unset, edits, decoder, result>>

\* vec![b; n], as in the invalid-length tests
RawBuffer(b, n) ==
    /\ pc = "build"
    /\ edits = 0
    /\ unset # {}
    /\ calldata' = Fill(b, n)
    /\ origin' = "raw"
    /\ pc' = "ready"
    /\ UNCHANGED <<tier, info, unset, edits, decoder, result>>

\* the caller keeps the first n bytes of an encoding
Truncate(n) ==
    /\ pc = "ready"
    /\ origin = "encoded"
    /\ n < Len(calldata)
    /\ calldata' = Slice(calldata, 0, n)
    /\ origin' = "cut"
    /\ UNCHANGED <<tier, info, unset, edits, decoder, result, pc>>

\* the caller appends k bytes b to an encoding
Extend(b, k) ==
    /\ pc = "ready"
    /\ origin = "encoded"
    /\ calldata' = extend_from_slice(calldata, Fill(b, k))
    /\ origin' = "extended"
    /\ UNCHANGED <<tier, info, unset, edits, decoder, result, pc>>

\* the caller overwrites bytes [0:4) of the buffer
ReplaceSelector(s) ==
    /\ pc = "ready"
    /\ origin \in {"encoded", "raw"}
    /\ Len(calldata) >= 4
    /\ Slice(calldata, 0, 4) # s
    /\ calldata' = copy_from_slice(calldata, 0, s)
    /\ origin' = IF origin = "raw" THEN "raw_reselected" ELSE "reselected"
    /\ UNCHANGED <<tier, info, unset, edits, decoder, result, pc>>

\* L1BlockInfoIsthmus::decode_calldata(&calldata)
IsthmusDecode ==
    /\ pc = "ready"
    /\ result' = Isthmus_decode_calldata(calldata)
    /\ decoder' = "Isthmus"
    /\ pc' = "decoded"
    /\ UNCHANGED <<tier, info, unset, edits, calldata, origin>>

\* L1BlockInfoJovian::decode_calldata(&calldata)
JovianDecode ==
    /\ pc = "ready"
    /\ result' = Jovian_decode_calldata(calldata)
    /\ decoder' = "Jovian"
    /\ pc' = "decoded"
    /\ UNCHANGED <<tier, info, unset, edits, calldata, origin>>

Next ==
    \/ \E f \in Fields(tier) : \E x \in FieldValues(f) : SetField(f, x)
    \/ IsthmusEncode
    \/ JovianEncode
    \/ \E b \in FillBytes : \E n \in 0..(Jovian_L1_INFO_TX_LEN + MaxExtra) : RawBuffer(b, n)
    \/ \E n \in CutLens : Truncate(n)
    \/ \E b \in FillBytes : \E k \in 1..MaxExtra : Extend(b, k)
    \/ \E s \in Selectors : ReplaceSelector(s)
    \/ IsthmusDecode
    \/ JovianDecode

Spec == Init /\ [][Next]_vars

(***************************************************************************)
(* Properties.                                                             *)
(***************************************************************************)
Encoded == origin = "encoded" /\ pc \in {"ready", "decoded"}

Decoded(d) == pc = "decoded" /\ decoder = d

Decode(d, r) == IF d = "Isthmus" THEN Isthmus_decode_calldata(r) ELSE Jovian_decode_calldata(r)

\* C1: decoding the encoding of any Isthmus record with the Isthmus decoder
\* returns Ok of a record equal to the original in every field.
C1_IsthmusRoundTrip ==
    (Decoded("Isthmus") /\ tier = "Isthmus" /\ origin = "encoded")
        => (result.tag = "Ok" /\ result.val = info)

C1_Witness ==
    /\ Decoded("Isthmus") /\ tier = "Isthmus" /\ origin = "encoded"
    /\ result.tag = "Ok"
    /\ result.val = info
    /\ info.operator_fee_constant = Digits(4)
    /\ info.number = U64(1)

\* C2: decoding the encoding of any Jovian record with the Jovian decoder
\* returns Ok of a record equal to the original in every field, the Jovian
\* selector in the prefix given to the Isthmus decoder notwithstanding.
C2_JovianRoundTrip ==
    (Decoded("Jovian") /\ tier = "Jovian" /\ origin = "encoded")
        => (result.tag = "Ok" /\ result.val = info)

C2_Witness ==
    /\ Decoded("Jovian") /\ tier = "Jovian" /\ origin = "encoded"
    /\ Slice(calldata, 0, 4) = <<61, 182, 190, 43>>
    /\ result.tag = "Ok"
    /\ result.val = info
    /\ info.da_footprint_gas_scalar = Digits(1)
    /\ info.time = U64(2)

\* C3: the Isthmus decoder answers every buffer whose length n is not 176
\* with Err(InvalidIsthmusLength(176, n)), having indexed no byte of it.
C3_IsthmusLengthRejection ==
    (Decoded("Isthmus") /\ Len(calldata) # 176)
        => /\ result.tag = "Err"
           /\ result.kind = "InvalidIsthmusLength"
           /\ result.expected = 176
           /\ result.actual = Len(calldata)
           /\ result.reads = {}

C3_Witness ==
    /\ Decoded("Isthmus")
    /\ Len(calldata) = 178
    /\ result.tag = "Err"
    /\ result.expected = 176
    /\ result.actual = 178

\* C4: the Jovian decoder answers every buffer whose length n is not 178
\* (176 included) with Err(InvalidJovianLength(178, n)), and never answers
\* with InvalidIsthmusLength.
C4_JovianLengthRejection ==
    Decoded("Jovian")
        => /\ (Len(calldata) # 178)
                => /\ result.tag = "Err"
                   /\ result.kind = "InvalidJovianLength"
                   /\ result.expected = 178
                   /\ result.actual = Len(calldata)
           /\ ~(result.tag = "Err" /\ result.kind = "InvalidIsthmusLength")

C4_Witness ==
    /\ Decoded("Jovian")
    /\ tier = "Isthmus" /\ origin = "encoded"
    /\ Len(calldata) = 176
    /\ result.tag = "Err"
    /\ result.kind = "InvalidJovianLength"
    /\ result.actual = 176

\* C5: an Isthmus encoding is 176 bytes, the 164 base-field bytes and 12
\* more; a Jovian encoding is 178 bytes, the 176-byte Isthmus encoding and 2
\* more; both are the tier's L1_INFO_TX_LEN, whatever the field values.
C5_EncodedLength ==
    Encoded
        => /\ tier = "Isthmus"
                => /\ Len(calldata) = 176
                   /\ Len(calldata) = Isthmus_L1_INFO_TX_LEN
                   /\ Len(encode_base_fields(to_ecotone(info))) = 164
           /\ tier = "Jovian"
                => /\ Len(calldata) = 178
                   /\ Len(calldata) = Jovian_L1_INFO_TX_LEN
                   /\ Len(Isthmus_encode_calldata(to_isthmus(info))) = 176

C5_Witness ==
    /\ Encoded /\ pc = "ready"
    /\ tier = "Jovian"
    /\ info.blob_base_fee = Digits(8)
    /\ Len(calldata) = 178

\* C6: bytes [0:4) of an Isthmus encoding are 0x098999be and bytes [0:4) of
\* a Jovian encoding are 0x3db6be2b.
C6_OwnSelector ==
    Encoded
        => /\ tier = "Isthmus" => Slice(calldata, 0, 4) = <<9, 137, 153, 190>>
           /\ tier = "Jovian" => Slice(calldata, 0, 4) = <<61, 182, 190, 43>>

C6_Witness ==
    /\ Encoded /\ pc = "ready"
    /\ tier = "Jovian"
    /\ Slice(calldata, 0, 4) = <<61, 182, 190, 43>>
    /\ Slice(Isthmus_encode_calldata(to_isthmus(info)), 0, 4) = <<9, 137, 153, 190>>

\* C7: a Jovian record whose da_footprint_gas_scalar the caller did not set
\* holds 400 there, and its encoding carries 0x01 0x90 in bytes [176:178).
C7_DefaultDaFootprint ==
    (Encoded /\ tier = "Jovian" /\ "da_footprint_gas_scalar" \in unset)
        => /\ info.da_footprint_gas_scalar = U16(400)
           /\ Slice(calldata, 176, 178) = <<1, 144>>

\* C8: on every buffer both decoders return Ok or Err and never panic, index
\* the buffer only inside its length, return Ok exactly when the length is
\* the decoder's L1_INFO_TX_LEN, and the Jovian decoder's map_err closure
\* never runs.
C8_DecodeTotal ==
    pc = "decoded"
        => /\ result.tag \in {"Ok", "Err"}
           /\ InBounds(calldata, result.reads)
           /\ (result.tag = "Ok") <=> (Len(calldata) = IF decoder = "Isthmus" THEN 176 ELSE 178)
           /\ ~result.mapped
           /\ (decoder = "Jovian" /\ Len(calldata) = 178)
                => Isthmus_decode_calldata(Slice(calldata, 0, 176)).tag = "Ok"

C8_Witness ==
    /\ Decoded("Jovian")
    /\ origin = "raw"
    /\ calldata = Fill(171, 178)
    /\ result.tag = "Ok"
    /\ <<176, 178>> \in result.reads
    /\ <<0, 176>> \in result.reads

\* C9: a buffer of the decoder's length decodes to the same Ok record
\* whatever bytes [0:4) are replaced by.
C9_SelectorAgnostic ==
    (pc = "decoded" /\ Len(calldata) = IF decoder = "Isthmus" THEN 176 ELSE 178)
        => /\ result.tag = "Ok"
           /\ \A s \in Selectors :
                LET other == Decode(decoder, copy_from_slice(calldata, 0, s))
                IN  other.tag = "Ok" /\ other.val = result.val
           /\ (origin \in {"encoded", "reselected"} /\ tier = decoder) => result.val = info

C9_Witness ==
    /\ Decoded("Jovian")
    /\ tier = "Jovian" /\ origin = "reselected"
    /\ Len(calldata) = 178
    /\ Slice(calldata, 0, 4) = Isthmus_L1_INFO_TX_SELECTOR
    /\ result.tag = "Ok"
    /\ result.val = info
    /\ info = Jovian_test_info

\* C10: bytes [4:176) of a Jovian encoding are those of the Isthmus encoding
\* of to_isthmus of the record, with operator_fee_scalar big-endian at
\* [164:168) and operator_fee_constant big-endian at [168:176); the two
\* encodings differ only in bytes [0:4) and in the appended bytes [176:178),
\* da_footprint_gas_scalar big-endian.
C10_PrefixExtension ==
    (Encoded /\ tier = "Jovian")
        => LET isthmus == Isthmus_encode_calldata(to_isthmus(info))
           IN  /\ Len(isthmus) = 176
               /\ Len(calldata) = 178
               /\ Slice(calldata, 4, 176) = Slice(isthmus, 4, 176)
               /\ Slice(calldata, 164, 168) = to_be_bytes(info.operator_fee_scalar)
               /\ Slice(calldata, 168, 176) = to_be_bytes(info.operator_fee_constant)
               /\ Slice(calldata, 176, 178) = to_be_bytes(info.da_footprint_gas_scalar)
               /\ info.operator_fee_scalar = Count(2)
                    => Slice(calldata, 164, 168) = <<1, 2, 3, 4>>
               /\ info.operator_fee_constant = Count(4)
                    => Slice(calldata, 168, 176) = <<1, 2, 3, 4, 5, 6, 7, 8>>
               /\ info.da_footprint_gas_scalar = U16(DEFAULT_DA_FOOTPRINT_GAS_SCALAR)
                    => Slice(calldata, 176, 178) = <<1, 144>>
               /\ info = Jovian_test_info
                    => Slice(calldata, 164, 178) = <<0, 0, 0, 10, 0, 0, 0, 0, 0, 0, 0, 11, 0, 12>>

C10_Witness ==
    /\ Encoded /\ pc = "ready"
    /\ tier = "Jovian"
    /\ info.operator_fee_constant = Count(4)
    /\ Slice(calldata, 168, 176) = <<1, 2, 3, 4, 5, 6, 7, 8>>
    /\ Slice(calldata, 4, 176) = Slice(Isthmus_encode_calldata(to_isthmus(info)), 4, 176)
====
